---- MODULE Spec2Model ----
(***************************************************************************)
(* The two PillSplitter widgets of the repository:                         *)
(*   "rounded" - the corner-rounding variant (src/unnamed/part_001,        *)
(*               lines 150-649), records {id,x,y,width,height,color,       *)
(*               borderRadius};                                            *)
(*   "flat"    - the palette variant (src/unnamed/part_002, lines 1-225),  *)
(*               records {id,x,y,w,h,color}.                               *)
(* Coordinates are container-relative integers (pixels).  A nullable       *)
(* reference or state cell is a sequence: <<>> is null, <<r>> holds r.     *)
(*                                                                         *)
(* And the two other widgets of the repository:                            *)
(*   "board"   - the reorder board ShuffleBoard (src/unnamed/part_000,     *)
(*               src/src/components/ShuffleBoard.tsx);                     *)
(*   "window"  - one Window of the WindowManager (src/unnamed/part_001,    *)
(*               lines 1-148).                                             *)
(***************************************************************************)
EXTENDS Integers, Sequences, FiniteSets

VARIABLES
    widget,      \* which PillSplitter is mounted: "rounded" or "flat"
    pills,       \* useState<PillPart[]> / useState<Pill[]>: the shape store
    cursor,      \* useState cursor: <<>> (null) or <<[x, y]>>
    mouse,       \* environment: where the pointer really is
    drawingRef,  \* rounded: useRef {startX, startY, drawing} | null
    dragRef,     \* rounded: useRef {pillId, offsetX, offsetY, dragging} | null
    drawState,   \* flat: useState<DrawState | null>
    dragState,   \* flat: useState<DragState | null>
    clickRef,    \* flat: useRef {x, y, id}; its time is read as a duration
    nextId,      \* the id generator: the next value generateId() returns
    phase,       \* environment: which DOM event the browser delivers next
    gestures,    \* environment: pointer-downs so far
    ev,          \* history: the last event delivered
    down,        \* history: the last pointer-down [x, y, target]
    held,        \* history: how long the button was down at the last pointer-up
    ops,         \* history: kinds of store operation since the last pointer-down
    split,       \* history: the split since the last pointer-down, <<[before, x, y]>>
    cols,        \* board: useState<CardItem[][]>, the two columns
    dragging,    \* board: useState dragging: <<>> (null) or <<[card, fromCol, ...]>>
    pointer,     \* board: useState pointer {x, y}
    placeholder, \* board: useState placeholder: <<>> (null) or <<[col, index]>>
    pos,         \* window: useState pos {x, y}
    isDragging,  \* window: useState isDragging
    listeners,   \* window: the mousemove/mouseup closures registered on window
    viewport     \* window: environment, window.innerWidth x window.innerHeight

boardVars == <<cols, dragging, pointer, placeholder>>
windowVars == <<pos, isDragging, listeners, viewport>>

vars == <<widget, pills, cursor, mouse, drawingRef, dragRef, drawState,
          dragState, clickRef, nextId, phase, gestures,
          ev, down, held, ops, split, boardVars, windowVars>>

----------------------------------------------------------------------------
(* Program constants *)

MIN_PILL_SIZE == 40         \* rounded: minimum size of a drawn pill
MIN_PART_SIZE == 20         \* rounded: minimum size of a split part
MIN_DRAW_SIZE == 40         \* flat: minimum size of a drawn pill
MIN_SPLIT_SIZE == 20        \* flat: minimum size of a split part
NUDGE_GAP == 2              \* flat: gap left between a nudged pill and the line
CLICK_DIST == 4             \* flat: a click moves less than this
CLICK_MS == 300             \* flat: a click lasts less than this
BORDER_RADIUS_SIZE == 20    \* the corner radius (flat: SHAPE_BORDER_RADIUS)

PILL_COLORS == {"#60a5fa", "#34d399", "#f87171"}   \* flat: the palette
NO_ID == 0                  \* flat: clickRef's id "" (no pill under the pointer)
DRAWING_ID == 0             \* rounded: the preview's reserved id "drawing"
PREVIEW_COLOR == "rgba(0,0,0,0.2)"                 \* rounded: the preview's color
(* rounded: randomColor() is hsl(hue, 70%, 80%), hue in 0..359; two of them *)
HslColors == {"hsl(0, 70%, 80%)", "hsl(359, 70%, 80%)"}

(* Bounds of the model *)

ContainerWidth == 120       \* containerRef.current.clientWidth
ContainerHeight == 120      \* containerRef.current.clientHeight
MaxGestures == 2            \* pointer-downs in one behaviour

(* Where the pointer can be: container-relative positions *)
Points == { [x |-> 0, y |-> 0], [x |-> 30, y |-> 0],
            [x |-> 0, y |-> 30], [x |-> 30, y |-> 30], [x |-> 32, y |-> 30],
            [x |-> 0, y |-> 60], [x |-> 60, y |-> 60] }
(* Date.now() - clickRef.current.time at pointer-up: a quick and a slow one *)
Durations == {100, 300}

Min(a, b) == IF a < b THEN a ELSE b
Max(a, b) == IF a > b THEN a ELSE b
Abs(a) == IF a < 0 THEN -a ELSE a

AllRounded == [topLeft |-> TRUE, topRight |-> TRUE,
               bottomLeft |-> TRUE, bottomRight |-> TRUE]

----------------------------------------------------------------------------
(* SplitPillFlat with a line on a pill's edge counted as crossing it *)
SplitPillFlatInclusive(pill, splitX, splitY, n) ==
    LET withinX == pill.x <= splitX /\ pill.x + pill.w >= splitX
        withinY == pill.y <= splitY /\ pill.y + pill.h >= splitY
        leftWidth == splitX - pill.x
        rightWidth == pill.x + pill.w - splitX
        topHeight == splitY - pill.y
        bottomHeight == pill.y + pill.h - splitY
        offsetX == IF withinX
                   THEN (IF 2 * pill.x + pill.w < 2 * splitX
                         THEN splitX - pill.w - NUDGE_GAP
                         ELSE splitX + NUDGE_GAP)
                   ELSE pill.x
        offsetY == IF withinY
                   THEN (IF 2 * pill.y + pill.h < 2 * splitY
                         THEN splitY - pill.h - NUDGE_GAP
                         ELSE splitY + NUDGE_GAP)
                   ELSE pill.y
    IN  IF ~withinX /\ ~withinY THEN <<pill>>
        ELSE IF withinX /\ leftWidth >= MIN_SPLIT_SIZE /\ rightWidth >= MIN_SPLIT_SIZE
        THEN IF withinY /\ topHeight >= MIN_SPLIT_SIZE /\ bottomHeight >= MIN_SPLIT_SIZE
             THEN << [pill EXCEPT !.id = n, !.w = leftWidth, !.h = topHeight],
                     [pill EXCEPT !.id = n + 1, !.x = splitX, !.w = rightWidth,
                                  !.h = topHeight],
                     [pill EXCEPT !.id = n + 2, !.y = splitY, !.w = leftWidth,
                                  !.h = bottomHeight],
                     [pill EXCEPT !.id = n + 3, !.x = splitX, !.y = splitY,
                                  !.w = rightWidth, !.h = bottomHeight] >>
             ELSE << [pill EXCEPT !.id = n, !.w = leftWidth],
                     [pill EXCEPT !.id = n + 1, !.x = splitX, !.w = rightWidth] >>
        ELSE IF withinY /\ topHeight >= MIN_SPLIT_SIZE /\ bottomHeight >= MIN_SPLIT_SIZE
        THEN << [pill EXCEPT !.id = n, !.h = topHeight],
                [pill EXCEPT !.id = n + 1, !.y = splitY, !.h = bottomHeight] >>
        ELSE << [pill EXCEPT !.x = offsetX, !.y = offsetY] >>

(* SplitPillFlat splitting on every crossed axis, whatever the extents *)
SplitPillFlatAnySize(pill, splitX, splitY, n) ==
    LET withinX == pill.x < splitX /\ pill.x + pill.w > splitX
        withinY == pill.y < splitY /\ pill.y + pill.h > splitY
        leftWidth == splitX - pill.x
        rightWidth == pill.x + pill.w - splitX
        topHeight == splitY - pill.y
        bottomHeight == pill.y + pill.h - splitY
    IN  IF ~withinX /\ ~withinY THEN <<pill>>
        ELSE IF withinX
        THEN IF withinY
             THEN << [pill EXCEPT !.id = n, !.w = leftWidth, !.h = topHeight],
                     [pill EXCEPT !.id = n + 1, !.x = splitX, !.w = rightWidth,
                                  !.h = topHeight],
                     [pill EXCEPT !.id = n + 2, !.y = splitY, !.w = leftWidth,
                                  !.h = bottomHeight],
                     [pill EXCEPT !.id = n + 3, !.x = splitX, !.y = splitY,
                                  !.w = rightWidth, !.h = bottomHeight] >>
             ELSE << [pill EXCEPT !.id = n, !.w = leftWidth],
                     [pill EXCEPT !.id = n + 1, !.x = splitX, !.w = rightWidth] >>
        ELSE << [pill EXCEPT !.id = n, !.h = topHeight],
                [pill EXCEPT !.id = n + 1, !.y = splitY, !.h = bottomHeight] >>

(* flat: splitPillsAt, the body of the flatMap for one pill.  n is the     *)
(* next id generateId() returns; the children take n, n+1, ...             *)
SplitPillFlat(pill, splitX, splitY, n) ==
    LET withinX == pill.x < splitX /\ pill.x + pill.w > splitX
        withinY == pill.y < splitY /\ pill.y + pill.h > splitY
        leftWidth == splitX - pill.x
        rightWidth == pill.x + pill.w - splitX
        topHeight == splitY - pill.y
        bottomHeight == pill.y + pill.h - splitY
        offsetX == IF withinX
                   THEN (IF 2 * pill.x + pill.w < 2 * splitX
                         THEN splitX - pill.w - NUDGE_GAP
                         ELSE splitX + NUDGE_GAP)
                   ELSE pill.x
        offsetY == IF withinY
                   THEN (IF 2 * pill.y + pill.h < 2 * splitY
                         THEN splitY - pill.h - NUDGE_GAP
                         ELSE splitY + NUDGE_GAP)
                   ELSE pill.y
    IN  IF ~withinX /\ ~withinY THEN <<pill>>
        ELSE IF withinX /\ leftWidth >= MIN_SPLIT_SIZE /\ rightWidth >= MIN_SPLIT_SIZE
        THEN IF withinY /\ topHeight >= MIN_SPLIT_SIZE /\ bottomHeight >= MIN_SPLIT_SIZE
             THEN << [pill EXCEPT !.id = n, !.w = leftWidth, !.h = topHeight],
                     [pill EXCEPT !.id = n + 1, !.x = splitX, !.w = rightWidth,
                                  !.h = topHeight],
                     [pill EXCEPT !.id = n + 2, !.y = splitY, !.w = leftWidth,
                                  !.h = bottomHeight],
                     [pill EXCEPT !.id = n + 3, !.x = splitX, !.y = splitY,
                                  !.w = rightWidth, !.h = bottomHeight] >>
             ELSE << [pill EXCEPT !.id = n, !.w = leftWidth],
                     [pill EXCEPT !.id = n + 1, !.x = splitX, !.w = rightWidth] >>
        ELSE IF withinY /\ topHeight >= MIN_SPLIT_SIZE /\ bottomHeight >= MIN_SPLIT_SIZE
        THEN << [pill EXCEPT !.id = n, !.h = topHeight],
                [pill EXCEPT !.id = n + 1, !.y = splitY, !.h = bottomHeight] >>
        ELSE << [pill EXCEPT !.x = offsetX, !.y = offsetY] >>

(* How many ids a pill's replacement consumed: one per child, and a pill   *)
(* that stays (unchanged or moved aside) is returned alone.                *)
FreshIn(out) == IF Len(out) = 1 THEN 0 ELSE Len(out)

(* A flatMap that keeps the first pill's result only *)
FirstResultOnly(each) == IF each = <<>> THEN <<>> ELSE Head(each)

(* flatMap: the concatenation of the per-pill results *)
RECURSIVE Flatten(_)
Flatten(each) == IF each = <<>> THEN <<>> ELSE Head(each) \o Flatten(Tail(each))

(* flat: what the flatMap's callback returns for each pill of prev, in order *)
RECURSIVE SplitEachFlat(_, _, _, _, _)
SplitEachFlat(prev, i, splitX, splitY, n) ==
    IF i > Len(prev) THEN <<>>
    ELSE LET out == SplitPillFlat(prev[i], splitX, splitY, n)
         IN  <<out>> \o SplitEachFlat(prev, i + 1, splitX, splitY, n + FreshIn(out))

(* flat: splitPillsAt(splitX, splitY) as the state update prev -> next     *)
splitPillsAt(prev, splitX, splitY, n) == Flatten(SplitEachFlat(prev, 1, splitX, splitY, n))

----------------------------------------------------------------------------
(* rounded: the splitting engine of onSingleClick                          *)

(* Both parts keeping all of the split part's rounding *)
KeepBorderRadius(part, splitLine) == <<part.borderRadius, part.borderRadius>>

splitBorderRadius(part, splitLine) ==
    IF splitLine = "vertical"
    THEN << [topLeft |-> part.borderRadius.topLeft,
             bottomLeft |-> part.borderRadius.bottomLeft,
             topRight |-> FALSE, bottomRight |-> FALSE],
            [topRight |-> part.borderRadius.topRight,
             bottomRight |-> part.borderRadius.bottomRight,
             topLeft |-> FALSE, bottomLeft |-> FALSE] >>
    ELSE << [topLeft |-> part.borderRadius.topLeft,
             topRight |-> part.borderRadius.topRight,
             bottomLeft |-> FALSE, bottomRight |-> FALSE],
            [bottomLeft |-> part.borderRadius.bottomLeft,
             bottomRight |-> part.borderRadius.bottomRight,
             topLeft |-> FALSE, topRight |-> FALSE] >>

(* splitPillPart with the second part keeping the whole extent *)
splitPillPartWhole(part, splitLine, splitAt, n) ==
    IF splitLine = "vertical"
    THEN IF \/ part.width < 2 * MIN_PART_SIZE
            \/ splitAt <= part.x + MIN_PART_SIZE
            \/ splitAt >= part.x + part.width - MIN_PART_SIZE
         THEN <<part>>
         ELSE << [part EXCEPT !.id = n, !.width = splitAt - part.x,
                              !.borderRadius = splitBorderRadius(part, "vertical")[1]],
                 [part EXCEPT !.id = n + 1, !.x = splitAt,
                              !.borderRadius = splitBorderRadius(part, "vertical")[2]] >>
    ELSE IF \/ part.height < 2 * MIN_PART_SIZE
            \/ splitAt <= part.y + MIN_PART_SIZE
            \/ splitAt >= part.y + part.height - MIN_PART_SIZE
         THEN <<part>>
         ELSE << [part EXCEPT !.id = n, !.height = splitAt - part.y,
                              !.borderRadius = splitBorderRadius(part, "horizontal")[1]],
                 [part EXCEPT !.id = n + 1, !.y = splitAt,
                              !.borderRadius = splitBorderRadius(part, "horizontal")[2]] >>

(* Returns one part (no split possible) or two; the two take ids n, n+1.   *)
splitPillPart(part, splitLine, splitAt, n) ==
    IF splitLine = "vertical"
    THEN IF \/ part.width < 2 * MIN_PART_SIZE
            \/ splitAt <= part.x + MIN_PART_SIZE
            \/ splitAt >= part.x + part.width - MIN_PART_SIZE
         THEN <<part>>
         ELSE LET leftWidth == splitAt - part.x
                  rightWidth == part.width - leftWidth
                  radius == splitBorderRadius(part, "vertical")
              IN  << [part EXCEPT !.id = n, !.width = leftWidth,
                                  !.borderRadius = radius[1]],
                     [part EXCEPT !.id = n + 1, !.x = splitAt, !.width = rightWidth,
                                  !.borderRadius = radius[2]] >>
    ELSE IF \/ part.height < 2 * MIN_PART_SIZE
            \/ splitAt <= part.y + MIN_PART_SIZE
            \/ splitAt >= part.y + part.height - MIN_PART_SIZE
         THEN <<part>>
         ELSE LET topHeight == splitAt - part.y
                  bottomHeight == part.height - topHeight
                  radius == splitBorderRadius(part, "horizontal")
              IN  << [part EXCEPT !.id = n, !.height = topHeight,
                                  !.borderRadius = radius[1]],
                     [part EXCEPT !.id = n + 1, !.y = splitAt, !.height = bottomHeight,
                                  !.borderRadius = radius[2]] >>

movePartAside(part, splitLine, splitAt) ==
    IF splitLine = "vertical"
    THEN IF 2 * part.x + part.width < 2 * splitAt
         THEN LET newX == Min(part.x, splitAt - part.width)
              IN  [part EXCEPT !.x = Max(0, newX)]
         ELSE [part EXCEPT !.x = Min(splitAt, ContainerWidth - part.width)]
    ELSE IF 2 * part.y + part.height < 2 * splitAt
         THEN LET newY == Min(part.y, splitAt - part.height)
              IN  [part EXCEPT !.y = Max(0, newY)]
         ELSE [part EXCEPT !.y = Min(splitAt, ContainerHeight - part.height)]

(* One axis of onSingleClick, given what splitPillPart returned: push the  *)
(* two parts, or the part moved aside.  next is the next unused id.        *)
PushSplitsOrAside(splits, part, splitLine, splitAt, n) ==
    IF Len(splits) = 1
    THEN [parts |-> <<movePartAside(part, splitLine, splitAt)>>, next |-> n,
          changed |-> TRUE]
    ELSE [parts |-> splits, next |-> n + 2, changed |-> TRUE]

(* SplitOrMoveAside with the parts in the preview's color *)
SplitOrMoveAsideRecolored(part, splitLine, splitAt, n) ==
    PushSplitsOrAside(splitPillPart([part EXCEPT !.color = PREVIEW_COLOR],
                                    splitLine, splitAt, n),
                      part, splitLine, splitAt, n)

(* SplitOrMoveAside numbering the parts from the split part's own id *)
SplitOrMoveAsideSameIds(part, splitLine, splitAt, n) ==
    PushSplitsOrAside(splitPillPart(part, splitLine, splitAt, part.id),
                      part, splitLine, splitAt, n)

(* One axis of onSingleClick: split the part, or move it aside.            *)
SplitOrMoveAside(part, splitLine, splitAt, n) ==
    PushSplitsOrAside(splitPillPart(part, splitLine, splitAt, n),
                      part, splitLine, splitAt, n)

(* for (const partV of verticalSplits): the second part, after the first   *)
SplitSecondPart(first, partV, splitY) ==
    LET second == SplitOrMoveAside(partV, "horizontal", splitY, first.next)
    IN  [parts |-> first.parts \o second.parts, next |-> second.next,
         changed |-> TRUE]

(* Both lines cross the pill: split vertically, then each part horizontally *)
SplitBothLines(verticalSplits, pill, splitX, splitY, n) ==
    IF Len(verticalSplits) = 1
    THEN [parts |-> <<movePartAside(pill, "vertical", splitX)>>,
          next |-> n, changed |-> TRUE]
    ELSE SplitSecondPart(SplitOrMoveAside(verticalSplits[1], "horizontal",
                                          splitY, n + 2),
                         verticalSplits[2], splitY)

(* The body of onSingleClick's loop for one pill.                          *)
SplitPillRounded(pill, splitX, splitY, n) ==
    LET intersectsVertically == pill.x < splitX /\ pill.x + pill.width > splitX
        intersectsHorizontally == pill.y < splitY /\ pill.y + pill.height > splitY
    IN  IF pill.id = DRAWING_ID THEN [parts |-> <<pill>>, next |-> n, changed |-> FALSE]
        ELSE IF intersectsVertically /\ intersectsHorizontally
        THEN SplitBothLines(splitPillPart(pill, "vertical", splitX, n),
                            pill, splitX, splitY, n)
        ELSE IF intersectsVertically
        THEN SplitOrMoveAside(pill, "vertical", splitX, n)
        ELSE IF intersectsHorizontally
        THEN SplitOrMoveAside(pill, "horizontal", splitY, n)
        ELSE [parts |-> <<pill>>, next |-> n, changed |-> FALSE]

(* newPills.push(...) and changed = true after one pill of the loop        *)
PushParts(acc, one) ==
    [each |-> Append(acc.each, one.parts), next |-> one.next,
     changed |-> acc.changed \/ one.changed]

(* The loop from pill i on.  acc.each: what was pushed for each pill so    *)
(* far, in order; acc.next: the next unused id; acc.changed: changed.      *)
RECURSIVE SplitRoundedFrom(_, _, _, _, _)
SplitRoundedFrom(prev, i, splitX, splitY, acc) ==
    IF i > Len(prev) THEN acc
    ELSE SplitRoundedFrom(prev, i + 1, splitX, splitY,
                          PushParts(acc, SplitPillRounded(prev[i], splitX, splitY,
                                                          acc.next)))

(* rounded: newPills (per pill, in each) and changed, as onSingleClick     *)
(* computes them                                                           *)
newPillsOf(prev, splitX, splitY, n) ==
    SplitRoundedFrom(prev, 1, splitX, splitY,
                     [each |-> <<>>, next |-> n, changed |-> FALSE])

(* rounded: the store after onSingleClick: if (changed) setPills(newPills)  *)
onSingleClickPills(prev, splitX, splitY, n) ==
    IF newPillsOf(prev, splitX, splitY, n).changed
    THEN Flatten(newPillsOf(prev, splitX, splitY, n).each)
    ELSE prev

----------------------------------------------------------------------------
(* The board and the window are not mounted next to a PillSplitter: their  *)
(* state cells hold nothing.                                               *)
NoBoard ==
    /\ cols = <<>>
    /\ dragging = <<>>
    /\ pointer = <<>>
    /\ placeholder = <<>>

NoWindow ==
    /\ pos = <<>>
    /\ isDragging = FALSE
    /\ listeners = <<>>
    /\ viewport = <<>>

----------------------------------------------------------------------------
(* Helpers shared by the handlers                                          *)

Width(pill) == IF widget = "flat" THEN pill.w ELSE pill.width
Height(pill) == IF widget = "flat" THEN pill.h ELSE pill.height

(* prev.filter((p) => p.id !== id) *)
FilterOut(ps, id) == SelectSeq(ps, LAMBDA q : q.id # id)

(* pills.findIndex((p) => p.id === id), 1-based; 0 is JavaScript's -1 *)
FindIndex(ps, id) ==
    IF \E i \in 1..Len(ps) : ps[i].id = id
    THEN CHOOSE i \in 1..Len(ps) :
             /\ ps[i].id = id
             /\ \A j \in 1..(i - 1) : ps[j].id # id
    ELSE 0

(* style borderRadius: which corners of a rendered pill are rounded *)
IsRounded(pill, corner) ==
    IF widget = "flat" THEN TRUE ELSE pill.borderRadius[corner]

(* How many of the two corners are rounded *)
RoundedOf(pill, a, b) ==
    (IF IsRounded(pill, a) THEN 1 ELSE 0) + (IF IsRounded(pill, b) THEN 1 ELSE 0)

(* Twice the radius one side leaves to its corners: the browser scales the *)
(* radii down where the two on a side are longer than the side.            *)
SideRadius2(length, corners) ==
    IF corners = 2 THEN Min(2 * BORDER_RADIUS_SIZE, length) ELSE 2 * BORDER_RADIUS_SIZE

(* Twice the radius the browser paints the rounded corners of the pill with *)
PaintedRadius2(pill) ==
    Min(Min(SideRadius2(Width(pill), RoundedOf(pill, "topLeft", "topRight")),
            SideRadius2(Width(pill), RoundedOf(pill, "bottomLeft", "bottomRight"))),
        Min(SideRadius2(Height(pill), RoundedOf(pill, "topLeft", "bottomLeft")),
            SideRadius2(Height(pill), RoundedOf(pill, "topRight", "bottomRight"))))

(* The point at dx, dy from the two edges of a corner lies outside the     *)
(* curve of a corner of radius r2 / 2: it is not part of the element.      *)
OutsideCurve(r2, dx, dy) ==
    /\ 2 * dx < r2
    /\ 2 * dy < r2
    /\ (r2 - 2 * dx) * (r2 - 2 * dx)
         + (r2 - 2 * dy) * (r2 - 2 * dy) > r2 * r2

CutOff(pill, corner, dx, dy) ==
    IsRounded(pill, corner) /\ OutsideCurve(PaintedRadius2(pill), dx, dy)

(* The element of a rendered pill holds the point: its box without what   *)
(* the rounded corners cut off.                                            *)
Covers(pill, p) ==
    /\ pill.x <= p.x /\ p.x < pill.x + Width(pill)
    /\ pill.y <= p.y /\ p.y < pill.y + Height(pill)
    /\ ~CutOff(pill, "topLeft", p.x - pill.x, p.y - pill.y)
    /\ ~CutOff(pill, "topRight", pill.x + Width(pill) - p.x, p.y - pill.y)
    /\ ~CutOff(pill, "bottomLeft", p.x - pill.x, pill.y + Height(pill) - p.y)
    /\ ~CutOff(pill, "bottomRight", pill.x + Width(pill) - p.x,
               pill.y + Height(pill) - p.y)

(* The event target: the index of the topmost pill under p that takes      *)
(* pointer events (the preview has pointer-events: none), 0 when it is the *)
(* container.  Later pills paint over earlier ones.                        *)
TargetIndex(ps, p) ==
    LET hit == {i \in 1..Len(ps) :
                  Covers(ps[i], p) /\ ~(widget = "rounded" /\ ps[i].id = DRAWING_ID)}
    IN  IF hit = {} THEN 0 ELSE CHOOSE i \in hit : \A j \in hit : j <= i

(* history: the store a split was applied to, the split point, and what   *)
(* the engine returned for each pill of that store                         *)
SplitOf(store, x, y, each) == << [before |-> store, x |-> x, y |-> y, each |-> each] >>

Drawing == drawingRef # <<>> /\ drawingRef[1].drawing
Dragging == dragRef # <<>> /\ dragRef[1].dragging

roundedVars == <<drawingRef, dragRef>>
flatVars == <<drawState, dragState, clickRef>>

----------------------------------------------------------------------------
(* rounded: the handlers                                                   *)

PreviewPill(left, top, width, height) ==
    [id |-> DRAWING_ID, x |-> left, y |-> top, width |-> width, height |-> height,
     color |-> PREVIEW_COLOR, borderRadius |-> AllRounded]

(* onMouseMove's preview update: prev => [...filtered, preview] *)
DrawPreview(prev, x, y) ==
    LET startX == drawingRef[1].startX
        startY == drawingRef[1].startY
        newWidth == Max(Abs(x - startX), MIN_PILL_SIZE)
        newHeight == Max(Abs(y - startY), MIN_PILL_SIZE)
        left == Min(x, startX)
        top == Min(y, startY)
    IN  FilterOut(prev, DRAWING_ID) \o <<PreviewPill(left, top, newWidth, newHeight)>>

(* A drag that carries every pill of the store along *)
DragMoveAll(ps, pillIndex, x, y) ==
    [i \in 1..Len(ps) |->
        [ps[i] EXCEPT !.x = ps[i].x + (x - dragRef[1].offsetX) - ps[pillIndex].x,
                      !.y = ps[i].y + (y - dragRef[1].offsetY) - ps[pillIndex].y]]

(* onMouseMove's drag: the rendered pills with the dragged one repositioned *)
DragMove(ps, pillIndex, x, y) ==
    LET pill == ps[pillIndex]
        newX == x - dragRef[1].offsetX
        newY == y - dragRef[1].offsetY
        rectWidth == ContainerWidth
        rectHeight == ContainerHeight
    IN  [ps EXCEPT ![pillIndex] =
            [pill EXCEPT !.x = Max(0, Min(newX, rectWidth - pill.width)),
                         !.y = Max(0, Min(newY, rectHeight - pill.height))]]

onMouseMove(p) ==
    /\ widget = "rounded"
    /\ phase \in {"idle", "pressed"}
    /\ p # mouse
    /\ mouse' = p
    /\ cursor' = <<p>>
    /\ LET drawn == IF Drawing THEN DrawPreview(pills, p.x, p.y) ELSE pills
           pillIndex == IF Dragging THEN FindIndex(pills, dragRef[1].pillId) ELSE 0
       IN  IF pillIndex # 0
           THEN /\ pills' = DragMove(pills, pillIndex, p.x, p.y)
                /\ ev' = "drag"
                /\ ops' = ops \cup {"move"}
           ELSE /\ pills' = drawn
                /\ ev' = "move"
                /\ ops' = ops
    /\ UNCHANGED <<boardVars, windowVars, widget, roundedVars, flatVars, nextId, phase, gestures, down, held,
                   split>>

(* A pointer-down inside the container: onDragStart on the pill under the  *)
(* pointer (it stops propagation), else the container's onMouseDown.       *)
MouseDownRounded ==
    /\ widget = "rounded"
    /\ phase = "idle"
    /\ gestures < MaxGestures
    /\ gestures' = gestures + 1
    /\ phase' = "pressed"
    /\ LET target == TargetIndex(pills, mouse)
       IN  IF target # 0
           THEN \* onDragStart(e, pill.id, pill.x, pill.y)
                /\ dragRef' = << [pillId |-> pills[target].id,
                                  offsetX |-> mouse.x - pills[target].x,
                                  offsetY |-> mouse.y - pills[target].y,
                                  dragging |-> TRUE] >>
                /\ down' = [x |-> mouse.x, y |-> mouse.y, target |-> pills[target].id]
                /\ UNCHANGED <<pills, drawingRef>>
           ELSE \* onMouseDown
                /\ drawingRef' = << [startX |-> mouse.x, startY |-> mouse.y,
                                     drawing |-> TRUE] >>
                /\ pills' = Append(pills, PreviewPill(mouse.x, mouse.y,
                                                      MIN_PILL_SIZE, MIN_PILL_SIZE))
                /\ down' = [x |-> mouse.x, y |-> mouse.y, target |-> NO_ID]
                /\ UNCHANGED dragRef
    /\ ev' = "down"
    /\ ops' = {}
    /\ split' = <<>>
    /\ UNCHANGED <<boardVars, windowVars, widget, cursor, mouse, flatVars, nextId, held>>

(* onDragEnd: dragRef.current = null *)
onDragEnd == <<>>

(* A pointer-up inside the container, the button held for `duration` ms   *)
(* (no handler reads it): onDragEnd when it is over a pill, then (the      *)
(* event bubbles) the container's onMouseUp.  The browser then dispatches  *)
(* the click.                                                              *)
MouseUpRounded(duration) ==
    /\ widget = "rounded"
    /\ phase = "pressed"
    /\ phase' = "click"
    /\ held' = duration
    /\ dragRef' = IF TargetIndex(pills, mouse) # 0 THEN onDragEnd ELSE dragRef
    /\ LET index == FindIndex(pills, DRAWING_ID)
       IN  IF ~Drawing
           THEN UNCHANGED <<pills, drawingRef, nextId, ops>>
           ELSE /\ drawingRef' = <<>>
                /\ IF index = 0
                   THEN UNCHANGED <<pills, nextId, ops>>
                   ELSE IF /\ pills[index].width >= MIN_PILL_SIZE
                           /\ pills[index].height >= MIN_PILL_SIZE
                   THEN \E color \in HslColors :
                          /\ pills' = FilterOut(pills, DRAWING_ID) \o
                                 << [pills[index] EXCEPT !.id = nextId,
                                                         !.color = color,
                                                         !.borderRadius = AllRounded] >>
                          /\ nextId' = nextId + 1
                          /\ ops' = ops \cup {"add"}
                   ELSE /\ pills' = FilterOut(pills, DRAWING_ID)
                        /\ UNCHANGED <<nextId, ops>>
    /\ ev' = "up"
    /\ UNCHANGED <<boardVars, windowVars, widget, cursor, mouse, flatVars, gestures, down, split>>

(* The button is released where the container does not see it (outside the *)
(* container or the window): no handler runs and no click is dispatched.   *)
MouseUpOutside ==
    /\ widget = "rounded"
    /\ phase = "pressed"
    /\ phase' = "idle"
    /\ ev' = "lost"
    /\ UNCHANGED <<boardVars, windowVars, widget, pills, cursor, mouse, roundedVars, flatVars, nextId,
                   gestures, down, held, ops, split>>

(* The click that follows a pointer-up: onSingleClick *)
onSingleClick ==
    /\ widget = "rounded"
    /\ phase = "click"
    /\ phase' = "idle"
    /\ IF Drawing \/ Dragging \/ cursor = <<>>
       THEN UNCHANGED <<pills, nextId, ops, split>>
       ELSE LET splitX == cursor[1].x
                splitY == cursor[1].y
                r == newPillsOf(pills, splitX, splitY, nextId)
            IN  /\ pills' = onSingleClickPills(pills, splitX, splitY, nextId)
                /\ nextId' = r.next
                /\ split' = SplitOf(pills, splitX, splitY, r.each)
                /\ ops' = ops \cup {"split"} \cup (IF Flatten(r.each) # pills THEN {"cut"} ELSE {})
    /\ ev' = "click"
    /\ UNCHANGED <<boardVars, windowVars, widget, cursor, mouse, roundedVars, flatVars, gestures, down, held>>

----------------------------------------------------------------------------
(* flat: the handlers                                                      *)

(* Math.hypot(x - clickRef.x, y - clickRef.y) < 4 && duration < 300 *)
IsClick(x, y, duration) ==
    LET dx == x - clickRef.x
        dy == y - clickRef.y
    IN  dx * dx + dy * dy < CLICK_DIST * CLICK_DIST /\ duration < CLICK_MS

(* handleMouseDown's reorder: prev => [...prev.filter(p => p.id !== id), targetPill] *)
BringToFront(prev, targetPill) == Append(FilterOut(prev, targetPill.id), targetPill)

(* handleMouseMove's drag: the dragged pill follows the pointer *)
DragFlat(prev, x, y) ==
    [i \in 1..Len(prev) |->
        IF prev[i].id = dragState[1].id
        THEN [prev[i] EXCEPT !.x = x - dragState[1].dx, !.y = y - dragState[1].dy]
        ELSE prev[i]]

handleMouseDown ==
    /\ widget = "flat"
    /\ phase = "idle"
    /\ gestures < MaxGestures
    /\ gestures' = gestures + 1
    /\ phase' = "pressed"
    /\ LET target == TargetIndex(pills, mouse)
           pillId == IF target # 0 THEN pills[target].id ELSE NO_ID
       IN  /\ clickRef' = [x |-> mouse.x, y |-> mouse.y, id |-> pillId]
           /\ IF target # 0
              THEN LET targetPill == pills[FindIndex(pills, pillId)]
                   IN  /\ pills' = BringToFront(pills, targetPill)
                       /\ dragState' = << [id |-> pillId,
                                           dx |-> mouse.x - targetPill.x,
                                           dy |-> mouse.y - targetPill.y] >>
                       /\ UNCHANGED drawState
              ELSE /\ drawState' = << [sx |-> mouse.x, sy |-> mouse.y,
                                       ex |-> mouse.x, ey |-> mouse.y] >>
                   /\ UNCHANGED <<pills, dragState>>
           /\ down' = [x |-> mouse.x, y |-> mouse.y, target |-> pillId]
    /\ ev' = "down"
    /\ ops' = {}
    /\ split' = <<>>
    /\ UNCHANGED <<boardVars, windowVars, widget, cursor, mouse, roundedVars, nextId, held>>

handleMouseMove(p) ==
    /\ widget = "flat"
    /\ phase \in {"idle", "pressed"}
    /\ p # mouse
    /\ mouse' = p
    /\ cursor' = <<p>>
    /\ drawState' = IF drawState # <<>>
                    THEN << [drawState[1] EXCEPT !.ex = p.x, !.ey = p.y] >>
                    ELSE drawState
    /\ IF dragState # <<>>
       THEN /\ pills' = DragFlat(pills, p.x, p.y)
            /\ ev' = "drag"
            /\ ops' = ops \cup {"move"}
       ELSE /\ ev' = "move"
            /\ UNCHANGED <<pills, ops>>
    /\ UNCHANGED <<boardVars, windowVars, widget, roundedVars, dragState, clickRef, nextId, phase, gestures,
                   down, held, split>>

handleMouseUp(duration) ==
    /\ widget = "flat"
    /\ phase = "pressed"
    /\ phase' = "idle"
    /\ LET x == mouse.x
           y == mouse.y
           click == IsClick(x, y, duration)
           sx == drawState[1].sx
           sy == drawState[1].sy
           ex == drawState[1].ex
           ey == drawState[1].ey
           drawX == Min(sx, ex)
           drawY == Min(sy, ey)
           drawW == Abs(ex - sx)
           drawH == Abs(ey - sy)
           adds == drawState # <<>> /\ drawW >= MIN_DRAW_SIZE /\ drawH >= MIN_DRAW_SIZE
       IN  \E color \in IF adds THEN PILL_COLORS ELSE {"none"} :
             LET drawn == IF adds
                          THEN Append(pills, [id |-> nextId, x |-> drawX, y |-> drawY,
                                              w |-> drawW, h |-> drawH, color |-> color])
                          ELSE pills
                 n == IF adds THEN nextId + 1 ELSE nextId
                 next == splitPillsAt(drawn, x, y, n)
             IN  /\ pills' = IF click THEN next ELSE drawn
                 /\ nextId' = IF click
                              THEN n + Cardinality({i \in 1..Len(next) : next[i].id >= n})
                              ELSE n
                 /\ split' = IF click
                             THEN SplitOf(drawn, x, y, SplitEachFlat(drawn, 1, x, y, n))
                             ELSE split
                 /\ ops' = ops \cup (IF adds THEN {"add"} ELSE {})
                               \cup (IF click THEN {"split"} ELSE {})
                               \cup (IF click /\ next # drawn THEN {"cut"} ELSE {})
    /\ drawState' = <<>>
    /\ dragState' = <<>>
    /\ held' = duration
    /\ ev' = "up"
    /\ UNCHANGED <<boardVars, windowVars, widget, cursor, mouse, roundedVars, clickRef, gestures, down>>

----------------------------------------------------------------------------
(* The widget as mounted, and the events the browser delivers to it        *)

Init ==
    /\ widget \in {"rounded", "flat"}
    /\ pills = <<>>
    /\ cursor = IF widget = "rounded" THEN <<>> ELSE << [x |-> 200, y |-> 200] >>
    /\ mouse = [x |-> 0, y |-> 0]
    /\ drawingRef = <<>>
    /\ dragRef = <<>>
    /\ drawState = <<>>
    /\ dragState = <<>>
    /\ clickRef = [x |-> 0, y |-> 0, id |-> NO_ID]
    /\ nextId = 1
    /\ phase = "idle"
    /\ gestures = 0
    /\ ev = "none"
    /\ down = [x |-> 0, y |-> 0, target |-> NO_ID]
    /\ held = 0
    /\ ops = {}
    /\ split = <<>>
    /\ NoBoard
    /\ NoWindow

Next ==
    \/ \E p \in Points : onMouseMove(p)
    \/ MouseDownRounded
    \/ \E duration \in Durations : MouseUpRounded(duration)
    \/ MouseUpOutside
    \/ onSingleClick
    \/ handleMouseDown
    \/ \E p \in Points : handleMouseMove(p)
    \/ \E duration \in Durations : handleMouseUp(duration)

Spec == Init /\ [][Next]_vars

----------------------------------------------------------------------------
(* The splitting engine on its own: the store holds one or two pills drawn *)
(* from a bounded set of stores the widget can reach, and each step splits *)
(* the store at a point, as a click there does.                            *)

SeedXs == {0, 20, 30}
SeedYs == {0, 50}
SeedWidths == {25, 40, 100}
SeedHeights == {25, 100}
SplitPoints == [x : {20, 40}, y : {20, 50, 60, 75}]

(* rounded: a pill narrower or lower than a drawn one is a left or a top   *)
(* part of a split, square on its cut sides.                               *)
SeedRadius(width, height) ==
    [topLeft |-> TRUE,
     topRight |-> width >= MIN_PILL_SIZE,
     bottomLeft |-> height >= MIN_PILL_SIZE,
     bottomRight |-> width >= MIN_PILL_SIZE /\ height >= MIN_PILL_SIZE]

SeedPill(w, id, x, y, width, height) ==
    IF w = "flat"
    THEN [id |-> id, x |-> x, y |-> y, w |-> width, h |-> height,
          color |-> "#60a5fa"]
    ELSE [id |-> id, x |-> x, y |-> y, width |-> width, height |-> height,
          color |-> "hsl(0, 70%, 80%)", borderRadius |-> SeedRadius(width, height)]

(* A second pill, drawn whole, under the first *)
SeedBelow(w) ==
    IF w = "flat"
    THEN [id |-> 1, x |-> 0, y |-> 0, w |-> 100, h |-> 100, color |-> "#34d399"]
    ELSE [id |-> 1, x |-> 0, y |-> 0, width |-> 100, height |-> 100,
          color |-> "hsl(359, 70%, 80%)", borderRadius |-> AllRounded]

SeedStores(w) ==
    LET one == {SeedPill(w, 2, x, y, width, height) :
                   x \in SeedXs, y \in SeedYs,
                   width \in SeedWidths, height \in SeedHeights}
        inside == {q \in one : \/ w = "flat"
                               \/ /\ q.x + q.width <= ContainerWidth
                                  /\ q.y + q.height <= ContainerHeight}
    IN  {<<q>> : q \in inside} \cup {<<SeedBelow(w), q>> : q \in inside}

EngineInit ==
    /\ widget \in {"rounded", "flat"}
    /\ pills \in SeedStores(widget)
    /\ cursor = IF widget = "rounded" THEN <<>> ELSE << [x |-> 200, y |-> 200] >>
    /\ mouse = [x |-> 0, y |-> 0]
    /\ drawingRef = <<>>
    /\ dragRef = <<>>
    /\ drawState = <<>>
    /\ dragState = <<>>
    /\ clickRef = [x |-> 0, y |-> 0, id |-> NO_ID]
    /\ nextId = 3
    /\ phase = "idle"
    /\ gestures = 0
    /\ ev = "none"
    /\ down = [x |-> 0, y |-> 0, target |-> NO_ID]
    /\ held = 0
    /\ ops = {}
    /\ split = <<>>
    /\ NoBoard
    /\ NoWindow

(* A click at p that reaches the engine: onSingleClick with the cursor at  *)
(* p (rounded), splitPillsAt(p.x, p.y) (flat).                             *)
ApplySplit(p) ==
    /\ gestures < MaxGestures
    /\ gestures' = gestures + 1
    /\ mouse' = p
    /\ cursor' = <<p>>
    /\ LET next == IF widget = "rounded"
                   THEN onSingleClickPills(pills, p.x, p.y, nextId)
                   ELSE splitPillsAt(pills, p.x, p.y, nextId)
       IN  /\ pills' = next
           /\ nextId' = IF widget = "rounded"
                        THEN newPillsOf(pills, p.x, p.y, nextId).next
                        ELSE nextId + Cardinality({i \in 1..Len(next) :
                                                      next[i].id >= nextId})
           /\ ops' = {"split"} \cup (IF next # pills THEN {"cut"} ELSE {})
    /\ split' = SplitOf(pills, p.x, p.y,
                        IF widget = "rounded"
                        THEN newPillsOf(pills, p.x, p.y, nextId).each
                        ELSE SplitEachFlat(pills, 1, p.x, p.y, nextId))
    /\ ev' = "click"
    /\ UNCHANGED <<boardVars, windowVars, widget, roundedVars, flatVars, phase, down, held>>

EngineNext == \E p \in SplitPoints : ApplySplit(p)

SpecEngine == EngineInit /\ [][EngineNext]_vars

----------------------------------------------------------------------------
(* The widget with one shape already drawn: the state after a draw from    *)
(* (0, 0) to (DrawnSize, DrawnSize), from where the gestures go on.        *)

DrawnSize == 60

InitDrawn ==
    /\ widget \in {"rounded", "flat"}
    /\ pills = << SeedPill(widget, 1, 0, 0, DrawnSize, DrawnSize) >>
    /\ cursor = << [x |-> DrawnSize, y |-> DrawnSize] >>
    /\ mouse = [x |-> DrawnSize, y |-> DrawnSize]
    /\ drawingRef = <<>>
    /\ dragRef = <<>>
    /\ drawState = <<>>
    /\ dragState = <<>>
    /\ clickRef = [x |-> 0, y |-> 0, id |-> NO_ID]
    /\ nextId = 2
    /\ phase = "idle"
    /\ gestures = 0
    /\ ev = "none"
    /\ down = [x |-> 0, y |-> 0, target |-> NO_ID]
    /\ held = 0
    /\ ops = {}
    /\ split = <<>>
    /\ NoBoard
    /\ NoWindow

SpecDrawn == InitDrawn /\ [][Next]_vars

----------------------------------------------------------------------------
(* The reorder board: ShuffleBoard.  Columns and indices are numbered from *)
(* 0 as in the source; column c is cols[c + 1] and its card at index i is  *)
(* cols[c + 1][i + 1].  Heights and gaps are in pixels; the gaps are kept  *)
(* doubled (a gap can lie on a half pixel).                                *)

BASE_HEIGHT == 60           \* makeCard: height is 60 + floor(random * 140)
HEIGHT_RANGE == 140
EDGE_GAP == 20              \* the gap above the first and below the last card
GAP_REACH == 60             \* the pointer is close to a gap when nearer than this
COLUMN_PADDING == 16        \* className p-4
CARD_SPACING == 12          \* className space-y-3

MaxDrags == 2               \* pointer-downs on a card in one behaviour
ColumnTop == 0              \* where the layout puts the top of the columns
GrabOffset == 10            \* how far below a card's top it is grabbed
PointerX == 100             \* clientX of the pointer events

(* clientY of the pointer-move events *)
PointerYs == {30, 100, 170, 250, 330, 500}

(* The heights makeCard draws: the least and the greatest *)
CardHeights == {BASE_HEIGHT, BASE_HEIGHT + HEIGHT_RANGE - 1}

makeCard(i, height) == [id |-> i + 1, height |-> height, text |-> i + 1]

RECURSIVE HeightAbove(_, _)
(* The height the first n cards of a column take, spacing included *)
HeightAbove(col, n) ==
    IF n = 0 THEN 0 ELSE HeightAbove(col, n - 1) + col[n].height + CARD_SPACING

(* getBoundingClientRect() of the card at index i of a column *)
CardTop(col, i) == ColumnTop + COLUMN_PADDING + HeightAbove(col, i)
CardBottom(col, i) == CardTop(col, i) + col[i + 1].height

(* The height of a column's box, and of the grid row both columns fill *)
ColumnHeight(col) ==
    IF Len(col) = 0 THEN 2 * COLUMN_PADDING
    ELSE 2 * COLUMN_PADDING + HeightAbove(col, Len(col)) - CARD_SPACING
RowHeight(cs) == Max(ColumnHeight(cs[1]), ColumnHeight(cs[2]))

(* Twice gapY of onPointerMove's loop at index i of the target column *)
GapY2(cs, targetCol, i) ==
    IF Len(cs[targetCol + 1]) = 0
    THEN 2 * ColumnTop + RowHeight(cs)
    ELSE IF i = 0
    THEN 2 * (CardTop(cs[targetCol + 1], 0) - EDGE_GAP)
    ELSE IF i = Len(cs[targetCol + 1])
    THEN 2 * (CardBottom(cs[targetCol + 1], i - 1) + EDGE_GAP)
    ELSE CardBottom(cs[targetCol + 1], i - 1) + CardTop(cs[targetCol + 1], i)

(* Math.abs(gapY - pointer.y) < 60 *)
NearGap(cs, targetCol, i, y) == Abs(GapY2(cs, targetCol, i) - 2 * y) < 2 * GAP_REACH

(* The column the card was picked from *)
OwnColumn(fromCol) == fromCol

(* The column a card picked from fromCol can go to *)
TargetOf(fromCol) == 1 - fromCol

(* onPointerMove's loop: the first index whose gap the pointer is close to *)
FoundPlaceholder(cs, targetCol, y) ==
    LET near == {i \in 0..Len(cs[targetCol + 1]) : NearGap(cs, targetCol, i, y)}
    IN  IF near = {} THEN <<>>
        ELSE << [col |-> targetCol,
                 index |-> CHOOSE i \in near : \A j \in near : i <= j] >>

(* A removal that leaves the array as it is *)
SpliceNothing(arr, index) == arr

(* arr.splice(index, 1) and arr.splice(index, 0, card) *)
SpliceOut(arr, index) ==
    SubSeq(arr, 1, Min(index, Len(arr))) \o SubSeq(arr, index + 2, Len(arr))
SpliceIn(arr, index, card) ==
    SubSeq(arr, 1, Min(index, Len(arr))) \o <<card>> \o SubSeq(arr, index + 1, Len(arr))

(* setCols's update in onPointerUp: the two splices, one after the other   *)
TakenOut(prev, d) ==
    [prev EXCEPT ![d.fromCol + 1] = SpliceOut(prev[d.fromCol + 1], d.fromIndex)]
Dropped(prev, d, ph) ==
    [TakenOut(prev, d) EXCEPT ![ph.col + 1] =
        SpliceIn(TakenOut(prev, d)[ph.col + 1], ph.index, d.card)]

boardOnly == <<pills, cursor, mouse, drawingRef, dragRef, drawState, dragState,
               clickRef, nextId, phase, down, held, ops, split, windowVars>>

(* onPointerDown of the card at index fromIndex of column fromCol *)
startDrag(fromCol, fromIndex) ==
    /\ widget = "board"
    /\ gestures < MaxDrags
    /\ fromIndex < Len(cols[fromCol + 1])
    /\ gestures' = gestures + 1
    /\ LET card == cols[fromCol + 1][fromIndex + 1]
           clientX == PointerX
           clientY == CardTop(cols[fromCol + 1], fromIndex) + GrabOffset
       IN  /\ dragging' = << [card |-> card, fromCol |-> fromCol,
                              fromIndex |-> fromIndex, x |-> clientX, y |-> clientY,
                              offsetX |-> clientX - PointerX,
                              offsetY |-> GrabOffset] >>
           /\ pointer' = [x |-> clientX, y |-> clientY]
    /\ placeholder' = <<>>
    /\ ev' = "down"
    /\ UNCHANGED <<widget, cols, boardOnly>>

(* The window's pointermove listener; its pointer is the one of the last   *)
(* render, the position of the event before this one.                      *)
onPointerMove(clientY) ==
    /\ widget = "board"
    /\ clientY # pointer.y
    /\ pointer' = [x |-> PointerX, y |-> clientY]
    /\ IF dragging = <<>>
       THEN UNCHANGED <<dragging, placeholder>>
       ELSE /\ dragging' = << [dragging[1] EXCEPT !.x = PointerX, !.y = clientY] >>
            /\ placeholder' = FoundPlaceholder(cols, TargetOf(dragging[1].fromCol),
                                               pointer.y)
    /\ ev' = "move"
    /\ UNCHANGED <<widget, cols, gestures, boardOnly>>

(* The window's pointerup listener *)
onPointerUp ==
    /\ widget = "board"
    /\ IF dragging = <<>>
       THEN UNCHANGED cols
       ELSE cols' = IF placeholder # <<>>
                    THEN Dropped(cols, dragging[1], placeholder[1])
                    ELSE cols
    /\ dragging' = <<>>
    /\ placeholder' = <<>>
    /\ ev' = "up"
    /\ UNCHANGED <<widget, pointer, gestures, boardOnly>>

InitBoard ==
    /\ widget = "board"
    /\ \E h0 \in CardHeights, h1 \in CardHeights :
          cols = << [i \in 1..4 |-> makeCard(i - 1, h0)],
                    [i \in 1..4 |-> makeCard(i + 3, h1)] >>
    /\ dragging = <<>>
    /\ pointer = [x |-> 0, y |-> 0]
    /\ placeholder = <<>>
    /\ pills = <<>>
    /\ cursor = <<>>
    /\ mouse = [x |-> 0, y |-> 0]
    /\ drawingRef = <<>>
    /\ dragRef = <<>>
    /\ drawState = <<>>
    /\ dragState = <<>>
    /\ clickRef = [x |-> 0, y |-> 0, id |-> NO_ID]
    /\ nextId = 1
    /\ phase = "idle"
    /\ gestures = 0
    /\ ev = "none"
    /\ down = [x |-> 0, y |-> 0, target |-> NO_ID]
    /\ held = 0
    /\ ops = {}
    /\ split = <<>>
    /\ NoWindow

NextBoard ==
    \/ \E fromCol \in {0, 1}, fromIndex \in 0..7 : startDrag(fromCol, fromIndex)
    \/ \E clientY \in PointerYs : onPointerMove(clientY)
    \/ onPointerUp

SpecBoard == InitBoard /\ [][NextBoard]_vars

----------------------------------------------------------------------------
(* One Window of the WindowManager.  The pointer positions are clientX,    *)
(* clientY; a listener is the closure handleMouseDown registers on window: *)
(* its startX, startY, initX, initY.                                       *)

WINDOW_WIDTH == 300         \* handleAddWindow: size.width
WINDOW_HEIGHT == 200        \* handleAddWindow: size.height
TITLE_HEIGHT == 32          \* the title bar, className h-8

MaxPresses == 2             \* mouse-downs on the title bar in one behaviour

(* window.innerWidth x window.innerHeight: one larger than the window, one *)
(* smaller                                                                 *)
Viewports == { [width |-> 400, height |-> 300], [width |-> 250, height |-> 150] }

WindowPoints == { [x |-> 0, y |-> 0], [x |-> 10, y |-> 10], [x |-> 150, y |-> 10],
                  [x |-> 200, y |-> 110], [x |-> 390, y |-> 290] }

(* Math.floor(Math.random() * n): the least and the greatest outcome *)
RandomBelow(n) == IF n > 0 THEN {0, n - 1} ELSE {n, 0}

(* generateRandomPosition() *)
RandomPositions(v) ==
    [x : RandomBelow(v.width - WINDOW_WIDTH), y : RandomBelow(v.height - WINDOW_HEIGHT)]

(* The position is left where the pointer takes it *)
Unclamped(limit, value) == value

(* Math.max(0, Math.min(limit, value)) *)
Clamped(limit, value) == Max(0, Min(limit, value))

(* One handleMouseMove closure at the pointer position p *)
MovedBy(listener, p) ==
    [x |-> Clamped(viewport.width - WINDOW_WIDTH,
                   listener.initX + (p.x - listener.startX)),
     y |-> Clamped(viewport.height - WINDOW_HEIGHT,
                   listener.initY + (p.y - listener.startY))]

RECURSIVE RunMoveListeners(_, _, _, _)
(* The mousemove listeners run in the order they were added; each setPos   *)
(* replaces the position set before it.                                    *)
RunMoveListeners(ls, i, p, position) ==
    IF i > Len(ls) THEN position
    ELSE RunMoveListeners(ls, i + 1, p, MovedBy(ls[i], p))

(* e.target === e.currentTarget: the pointer is on the title bar *)
OnTitleBar(p) ==
    /\ pos.x <= p.x /\ p.x < pos.x + WINDOW_WIDTH
    /\ pos.y <= p.y /\ p.y < pos.y + TITLE_HEIGHT

windowOnly == <<pills, cursor, drawingRef, dragRef, drawState, dragState,
                clickRef, nextId, phase, down, held, ops, split, boardVars>>

(* Window.handleMouseDown *)
WindowMouseDown ==
    /\ widget = "window"
    /\ gestures < MaxPresses
    /\ OnTitleBar(mouse)
    /\ gestures' = gestures + 1
    /\ isDragging' = TRUE
    /\ listeners' = Append(listeners, [startX |-> mouse.x, startY |-> mouse.y,
                                       initX |-> pos.x, initY |-> pos.y])
    /\ ev' = "down"
    /\ UNCHANGED <<widget, mouse, pos, viewport, windowOnly>>

(* A mousemove on window: every handleMouseMove registered runs *)
WindowMouseMove(p) ==
    /\ widget = "window"
    /\ p # mouse
    /\ mouse' = p
    /\ pos' = RunMoveListeners(listeners, 1, p, pos)
    /\ ev' = IF listeners # <<>> THEN "drag" ELSE "move"
    /\ UNCHANGED <<widget, gestures, isDragging, listeners, viewport, windowOnly>>

(* A mouseup on window: every handleMouseUp registered runs and removes    *)
(* its two listeners.                                                      *)
WindowMouseUp ==
    /\ widget = "window"
    /\ isDragging' = IF listeners # <<>> THEN FALSE ELSE isDragging
    /\ listeners' = <<>>
    /\ ev' = "up"
    /\ UNCHANGED <<widget, gestures, mouse, pos, viewport, windowOnly>>

(* The browser window is resized *)
Resize(v) ==
    /\ widget = "window"
    /\ v # viewport
    /\ viewport' = v
    /\ ev' = "resize"
    /\ UNCHANGED <<widget, gestures, mouse, pos, isDragging, listeners, windowOnly>>

InitWindow ==
    /\ widget = "window"
    /\ viewport \in Viewports
    /\ pos \in RandomPositions(viewport)
    /\ isDragging = FALSE
    /\ listeners = <<>>
    /\ mouse = [x |-> 0, y |-> 0]
    /\ pills = <<>>
    /\ cursor = <<>>
    /\ drawingRef = <<>>
    /\ dragRef = <<>>
    /\ drawState = <<>>
    /\ dragState = <<>>
    /\ clickRef = [x |-> 0, y |-> 0, id |-> NO_ID]
    /\ nextId = 1
    /\ phase = "idle"
    /\ gestures = 0
    /\ ev = "none"
    /\ down = [x |-> 0, y |-> 0, target |-> NO_ID]
    /\ held = 0
    /\ ops = {}
    /\ split = <<>>
    /\ NoBoard

NextWindow ==
    \/ WindowMouseDown
    \/ \E p \in WindowPoints : WindowMouseMove(p)
    \/ WindowMouseUp
    \/ \E v \in Viewports : Resize(v)

SpecWindow == InitWindow /\ [][NextWindow]_vars

----------------------------------------------------------------------------
(* Vocabulary of the properties                                            *)

MinSplit == IF widget = "flat" THEN MIN_SPLIT_SIZE ELSE MIN_PART_SIZE

(* A committed shape: not the rounded widget's preview *)
IsShape(q) == ~(widget = "rounded" /\ q.id = DRAWING_ID)

Rect(q) == <<q.x, q.y, Width(q), Height(q)>>
RectsOf(out) == {Rect(out[k]) : k \in 1..Len(out)}

CrossesX(q, sx) == q.x < sx /\ sx < q.x + Width(q)
CrossesY(q, sy) == q.y < sy /\ sy < q.y + Height(q)
LeftWidth(q, sx) == sx - q.x
RightWidth(q, sx) == q.x + Width(q) - sx
TopHeight(q, sy) == sy - q.y
BottomHeight(q, sy) == q.y + Height(q) - sy
SplittableX(q, sx) == LeftWidth(q, sx) >= MinSplit /\ RightWidth(q, sx) >= MinSplit
SplittableY(q, sy) == TopHeight(q, sy) >= MinSplit /\ BottomHeight(q, sy) >= MinSplit

(* The side of the line the shape's centre was on *)
OnCentreSideX(q, r, sx) ==
    IF 2 * q.x + Width(q) < 2 * sx THEN r.x + Width(r) <= sx ELSE r.x >= sx
OnCentreSideY(q, r, sy) ==
    IF 2 * q.y + Height(q) < 2 * sy THEN r.y + Height(r) <= sy ELSE r.y >= sy

(* The last event split the store: the engine ran on split[1].before at    *)
(* (split[1].x, split[1].y) and the store is what it returned.             *)
JustSplit == split # <<>> /\ ev \in {"up", "click"}

(* P(q, out, sx, sy) for every shape q of the split store and what the     *)
(* engine returned for it, and the store is those results, in order.       *)
ForEachSplitShape(P(_, _, _, _)) ==
    JustSplit =>
        /\ pills = Flatten(split[1].each)
        /\ Len(split[1].each) = Len(split[1].before)
        /\ \A i \in 1..Len(split[1].before) :
              IsShape(split[1].before[i]) =>
                  P(split[1].before[i], split[1].each[i], split[1].x, split[1].y)

SomeSplitShape(P(_, _, _, _)) ==
    /\ JustSplit
    /\ \E i \in 1..Len(split[1].before) :
          /\ IsShape(split[1].before[i])
          /\ P(split[1].before[i], split[1].each[i], split[1].x, split[1].y)

----------------------------------------------------------------------------
QuadrantCase(q, sx, sy) ==
    /\ CrossesX(q, sx) /\ CrossesY(q, sy)
    /\ SplittableX(q, sx) /\ SplittableY(q, sy)

IsQuadrantSplit(q, out, sx, sy) ==
    /\ Len(out) = 4
    /\ RectsOf(out) =
          { <<q.x, q.y, LeftWidth(q, sx), TopHeight(q, sy)>>,
            <<sx, q.y, RightWidth(q, sx), TopHeight(q, sy)>>,
            <<q.x, sy, LeftWidth(q, sx), BottomHeight(q, sy)>>,
            <<sx, sy, RightWidth(q, sx), BottomHeight(q, sy)>> }

C1_QuadrantOk(q, out, sx, sy) == QuadrantCase(q, sx, sy) => IsQuadrantSplit(q, out, sx, sy)

(* C1: a shape strictly crossed by both split lines whose four extents are *)
(* all at least the minimum splittable size is replaced by exactly four    *)
(* children: (x, y, leftWidth, topHeight), (splitX, y, rightWidth,         *)
(* topHeight), (x, splitY, leftWidth, bottomHeight), (splitX, splitY,      *)
(* rightWidth, bottomHeight) - in both widgets.                            *)
C1_QuadrantSplit == ForEachSplitShape(C1_QuadrantOk)

----------------------------------------------------------------------------
NudgeCase(q, sx, sy) ==
    /\ CrossesX(q, sx) \/ CrossesY(q, sy)
    /\ CrossesX(q, sx) => ~SplittableX(q, sx)
    /\ CrossesY(q, sy) => ~SplittableY(q, sy)

IsNudged(q, out, sx, sy) ==
    /\ Len(out) = 1
    /\ out[1].id = q.id
    /\ Width(out[1]) = Width(q) /\ Height(out[1]) = Height(q)
    /\ CrossesX(q, sx) => ~CrossesX(out[1], sx) /\ OnCentreSideX(q, out[1], sx)
    /\ CrossesY(q, sy) => ~CrossesY(out[1], sy) /\ OnCentreSideY(q, out[1], sy)

C2_NudgeOk(q, out, sx, sy) == NudgeCase(q, sx, sy) => IsNudged(q, out, sx, sy)

(* C2: a shape strictly crossed on an axis that is not splittable lies,    *)
(* after the split, wholly on one side of that line - the side its centre  *)
(* was on - with its width and height unchanged.  (The shape stays one     *)
(* shape: no crossed axis is splittable.)                                  *)
C2_NudgeCorrect == ForEachSplitShape(C2_NudgeOk)

----------------------------------------------------------------------------
SplitXNudgeYCase(q, sx, sy) ==
    /\ CrossesX(q, sx) /\ CrossesY(q, sy)
    /\ SplittableX(q, sx) /\ ~SplittableY(q, sy)

IsSplitXNudgedY(q, out, sx, sy) ==
    /\ Len(out) = 2
    /\ {<<out[k].x, Width(out[k])>> : k \in 1..2} =
          { <<q.x, LeftWidth(q, sx)>>, <<sx, RightWidth(q, sx)>> }
    /\ \A k \in 1..2 : Height(out[k]) = Height(q) /\ ~CrossesY(out[k], sy)

C3_MixedOk(q, out, sx, sy) == SplitXNudgeYCase(q, sx, sy) => IsSplitXNudgedY(q, out, sx, sy)

(* C3: a shape strictly crossed by both lines, splittable at splitX but    *)
(* not at splitY, is replaced by exactly two children split at splitX,     *)
(* both moved vertically wholly to one side of the horizontal line, their  *)
(* heights unchanged.                                                      *)
C3_SplitXNudgeY == ForEachSplitShape(C3_MixedOk)

----------------------------------------------------------------------------
SplitYNudgeXCase(q, sx, sy) ==
    /\ CrossesX(q, sx) /\ CrossesY(q, sy)
    /\ ~SplittableX(q, sx) /\ SplittableY(q, sy)

IsSplitYNudgedX(q, out, sx, sy) ==
    /\ Len(out) = 2
    /\ {<<out[k].y, Height(out[k])>> : k \in 1..2} =
          { <<q.y, TopHeight(q, sy)>>, <<sy, BottomHeight(q, sy)>> }
    /\ \A k \in 1..2 : Width(out[k]) = Width(q) /\ ~CrossesX(out[k], sx)

C4_MixedOk(q, out, sx, sy) == SplitYNudgeXCase(q, sx, sy) => IsSplitYNudgedX(q, out, sx, sy)

(* C4: a shape strictly crossed by both lines, splittable at splitY but    *)
(* not at splitX, is split into two children at splitY and moved on the X  *)
(* axis wholly to one side of the vertical line.                           *)
C4_SplitYNudgeX == ForEachSplitShape(C4_MixedOk)

----------------------------------------------------------------------------
IsSplitAtX(q, out, sx) ==
    /\ Len(out) = 2
    /\ RectsOf(out) = { <<q.x, q.y, LeftWidth(q, sx), Height(q)>>,
                        <<sx, q.y, RightWidth(q, sx), Height(q)>> }

IsSplitAtY(q, out, sy) ==
    /\ Len(out) = 2
    /\ RectsOf(out) = { <<q.x, q.y, Width(q), TopHeight(q, sy)>>,
                        <<q.x, sy, Width(q), BottomHeight(q, sy)>> }

C5_ThresholdOk(q, out, sx, sy) ==
    /\ CrossesX(q, sx) /\ ~CrossesY(q, sy) /\ SplittableX(q, sx) => IsSplitAtX(q, out, sx)
    /\ CrossesY(q, sy) /\ ~CrossesX(q, sx) /\ SplittableY(q, sy) => IsSplitAtY(q, out, sy)

(* C5: a shape crossed on exactly one axis is replaced by exactly two      *)
(* children along that axis whenever both resulting extents are at least   *)
(* the minimum splittable size, an extent equal to the minimum included.   *)
C5_SplitAtThreshold == ForEachSplitShape(C5_ThresholdOk)

----------------------------------------------------------------------------
C10_UntouchedOk(q, out, sx, sy) ==
    ~CrossesX(q, sx) /\ ~CrossesY(q, sy) =>
        /\ out = <<q>>
        /\ \E j \in 1..Len(pills) : pills[j] = q

(* C10: a shape that neither split line strictly crosses is in the output  *)
(* with every field unchanged.                                             *)
C10_NonCrossingUnchanged == ForEachSplitShape(C10_UntouchedOk)

(* A split that cut or moved one shape and left another, uncrossed, alone  *)
C10_Uncrossed(q, out, sx, sy) == ~CrossesX(q, sx) /\ ~CrossesY(q, sy)
C10_Witness == SomeSplitShape(C10_Uncrossed) /\ "cut" \in ops

----------------------------------------------------------------------------
(* Vocabulary of the gesture properties                                    *)

(* The gesture that began at `down` has been handled to its end: the       *)
(* pointer-up's handlers ran and, in the rounded widget, the click's.      *)
GestureDone ==
    \/ widget = "flat" /\ ev = "up"
    \/ widget = "rounded" /\ ev = "click"

OnEmptySpace == down.target = NO_ID

(* Total movement between pointer-down and pointer-up below the click      *)
(* threshold, the button held for less than the click duration             *)
SmallQuick ==
    /\ (mouse.x - down.x) * (mouse.x - down.x)
         + (mouse.y - down.y) * (mouse.y - down.y) < CLICK_DIST * CLICK_DIST
    /\ held < CLICK_MS

(* The id of the shape being dragged, NO_ID when none is *)
DraggedId ==
    IF widget = "flat"
    THEN (IF dragState # <<>> THEN dragState[1].id ELSE NO_ID)
    ELSE (IF Dragging THEN dragRef[1].pillId ELSE NO_ID)

InsideContainer(q) ==
    /\ 0 <= q.x /\ q.x <= ContainerWidth - Width(q)
    /\ 0 <= q.y /\ q.y <= ContainerHeight - Height(q)

----------------------------------------------------------------------------
(* C6: a draw gesture (pointer-down on empty space, moves, pointer-up)     *)
(* whose rectangle |endX - startX| x |endY - startY| is smaller than the   *)
(* minimum draw size in either dimension adds no shape to the store.       *)

C6_DrawMinimum ==
    /\ ev \in {"up", "click"}
    /\ OnEmptySpace
    /\ \/ Abs(mouse.x - down.x) < MIN_DRAW_SIZE
       \/ Abs(mouse.y - down.y) < MIN_DRAW_SIZE
    => "add" \notin ops

----------------------------------------------------------------------------
(* C7: a pointer-down/up pair over empty space with movement below the     *)
(* click threshold and duration below the click duration results in a      *)
(* split at that point and adds no shape.                                  *)

C7_ClickSplits ==
    GestureDone /\ OnEmptySpace /\ SmallQuick =>
        /\ split # <<>>
        /\ split[1].x = mouse.x /\ split[1].y = mouse.y
        /\ "add" \notin ops

----------------------------------------------------------------------------
(* C8: no gesture both adds a shape and splits, and none both repositions  *)
(* a shape and splits: of new-shape, move and split, one gesture performs  *)
(* at most one kind.                                                       *)

C8_OneOutcome ==
    /\ ~("add" \in ops /\ "cut" \in ops)
    /\ ~("move" \in ops /\ "cut" \in ops)

----------------------------------------------------------------------------
(* C9: after every drag move the dragged shape lies within the container,  *)
(* 0 <= x <= containerWidth - width and 0 <= y <= containerHeight - height *)
(* - in both widgets.                                                      *)

C9_MoveClamped ==
    ev = "drag" =>
        \A i \in 1..Len(pills) :
            pills[i].id = DraggedId => InsideContainer(pills[i])

----------------------------------------------------------------------------
OnEdgeX(q, sx) == sx = q.x \/ sx = q.x + Width(q)
OnEdgeY(q, sy) == sy = q.y \/ sy = q.y + Height(q)

(* Neither split nor translated along the axis *)
KeepsX(q, out) == \A k \in 1..Len(out) : out[k].x = q.x /\ Width(out[k]) = Width(q)
KeepsY(q, out) == \A k \in 1..Len(out) : out[k].y = q.y /\ Height(out[k]) = Height(q)

C11_EdgeOk(q, out, sx, sy) ==
    /\ OnEdgeX(q, sx) => KeepsX(q, out)
    /\ OnEdgeY(q, sy) => KeepsY(q, out)

(* C11: when the split coordinate on an axis equals a shape's near edge or *)
(* far edge, the shape is neither split nor translated along that axis,    *)
(* whatever happens on the other axis.                                     *)
C11_BoundaryPoint == ForEachSplitShape(C11_EdgeOk)

(* A line on a shape's edge while the other line cut or moved the shape *)
C11_OnEdge(q, out, sx, sy) ==
    /\ out # <<q>>
    /\ \/ OnEdgeX(q, sx) /\ CrossesY(q, sy)
       \/ OnEdgeY(q, sy) /\ CrossesX(q, sx)
C11_NearEdge(q, out, sx, sy) == C11_OnEdge(q, out, sx, sy) /\ (sx = q.x \/ sy = q.y)
C11_FarEdgeY(q, out, sx, sy) == C11_OnEdge(q, out, sx, sy) /\ sy = q.y + Height(q)
C11_Witness == SomeSplitShape(C11_NearEdge) /\ SomeSplitShape(C11_FarEdgeY)

----------------------------------------------------------------------------
Area(q) == Width(q) * Height(q)

RECURSIVE SumOfAreas(_)
SumOfAreas(out) == IF out = <<>> THEN 0 ELSE Area(Head(out)) + SumOfAreas(Tail(out))

(* The interiors of the two rectangles meet *)
Overlap(a, b) ==
    /\ a.x < b.x + Width(b) /\ b.x < a.x + Width(a)
    /\ a.y < b.y + Height(b) /\ b.y < a.y + Height(a)

(* The children tile the rectangle (x, y, w, h): they lie inside it, no    *)
(* two overlap, and their areas add up to its area.                        *)
Tiles(out, x, y, w, h) ==
    /\ \A k \in 1..Len(out) :
          /\ x <= out[k].x /\ out[k].x + Width(out[k]) <= x + w
          /\ y <= out[k].y /\ out[k].y + Height(out[k]) <= y + h
          /\ Width(out[k]) > 0 /\ Height(out[k]) > 0
    /\ \A j, k \in 1..Len(out) : j # k => ~Overlap(out[j], out[k])
    /\ SumOfAreas(out) = w * h

ReplacedByChildren(out) == Len(out) \in {2, 4}

C12_TilesParentOk(q, out, sx, sy) ==
    ReplacedByChildren(out) =>
        /\ SumOfAreas(out) = Area(q)
        /\ Tiles(out, q.x, q.y, Width(q), Height(q))

MovedAlongY(q, out) ==
    \E y \in {out[k].y : k \in 1..Len(out)} : Tiles(out, q.x, y, Width(q), Height(q))
MovedAlongX(q, out) ==
    \E x \in {out[k].x : k \in 1..Len(out)} : Tiles(out, x, q.y, Width(q), Height(q))

C12_AreaOk(q, out, sx, sy) ==
    ReplacedByChildren(out) =>
        /\ SumOfAreas(out) = Area(q)
        /\ IF Len(out) = 2 /\ CrossesX(q, sx) /\ CrossesY(q, sy)
           THEN IF out[1].x # out[2].x THEN MovedAlongY(q, out) ELSE MovedAlongX(q, out)
           ELSE Tiles(out, q.x, q.y, Width(q), Height(q))

C12_Quadrants(q, out, sx, sy) == Len(out) = 4
C12_TwoMoved(q, out, sx, sy) ==
    /\ Len(out) = 2 /\ CrossesX(q, sx) /\ CrossesY(q, sy)
    /\ out[1].y # q.y
----------------------------------------------------------------------------
C13_ChildrenOk(q, out, sx, sy) ==
    Len(out) >= 2 =>
        \A k \in 1..Len(out) :
            Width(out[k]) >= MIN_SPLIT_SIZE /\ Height(out[k]) >= MIN_SPLIT_SIZE

(* C13: every child generated by a split, two-child or four-child, in      *)
(* either widget, has width >= MIN_SPLIT_SIZE and height >= MIN_SPLIT_SIZE. *)
C13_NoChildBelowMinimum == ForEachSplitShape(C13_ChildrenOk)

(* A quadrant split, and a split with a child exactly at the minimum *)
C13_FourChildren(q, out, sx, sy) == Len(out) = 4
C13_ChildAtMinimum(q, out, sx, sy) ==
    /\ Len(out) >= 2
    /\ \E k \in 1..Len(out) :
          Width(out[k]) = MIN_SPLIT_SIZE \/ Height(out[k]) = MIN_SPLIT_SIZE
C13_Witness == SomeSplitShape(C13_FourChildren) /\ SomeSplitShape(C13_ChildAtMinimum)

----------------------------------------------------------------------------
(* C14: after any sequence of draw, drag and split gestures every          *)
(* committed shape in the store has strictly positive width and height,    *)
(* each at least the minimum splittable size (20).                         *)
C14_StoreSizes ==
    \A i \in 1..Len(pills) :
        IsShape(pills[i]) =>
            /\ Width(pills[i]) > 0 /\ Height(pills[i]) > 0
            /\ Width(pills[i]) >= MIN_SPLIT_SIZE /\ Height(pills[i]) >= MIN_SPLIT_SIZE

(* A split has cut a drawn shape: the store holds a shape smaller than any *)
(* that can be drawn                                                       *)
C14_Witness ==
    /\ JustSplit /\ "cut" \in ops
    /\ \E i \in 1..Len(pills) :
          IsShape(pills[i]) /\ Width(pills[i]) < MIN_DRAW_SIZE

----------------------------------------------------------------------------
(* The shape itself, at most translated: same id, size and other fields *)
SameShapeMoved(q, r) == r = [q EXCEPT !.x = r.x, !.y = r.y]

(* Two or four new shapes that share the parent's area between them *)
ChildrenOf(q, out) ==
    /\ Len(out) \in {2, 4}
    /\ \A k \in 1..Len(out) : out[k].id # q.id
    /\ SumOfAreas(out) = Area(q)

C15_OneOf(q, out, sx, sy) ==
    \/ Len(out) = 1 /\ SameShapeMoved(q, out[1])
    \/ ChildrenOf(q, out)

TwoWaySplits == {i \in 1..Len(split[1].each) : Len(split[1].each[i]) = 2}
FourWaySplits == {i \in 1..Len(split[1].each) : Len(split[1].each[i]) = 4}

(* C15: for every input shape the output of a split holds exactly one of:  *)
(* the shape unchanged, the shape translated (same id and size), two       *)
(* children, four children - and nothing else: the shape count after a     *)
(* split is the input count plus 1 per two-way and 3 per four-way split.   *)
C15_NoLossNoDuplicate ==
    /\ ForEachSplitShape(C15_OneOf)
    /\ JustSplit =>
          Len(pills) = Len(split[1].before) + Cardinality(TwoWaySplits)
                          + 3 * Cardinality(FourWaySplits)

(* One split that cut a shape in four and translated another *)
C15_Translated(q, out, sx, sy) == Len(out) = 1 /\ out # <<q>>
C15_Four(q, out, sx, sy) == Len(out) = 4
C15_Witness == SomeSplitShape(C15_Four) /\ SomeSplitShape(C15_Translated)

----------------------------------------------------------------------------
IdsOf(ps) == {ps[i].id : i \in {j \in 1..Len(ps) : IsShape(ps[j])}}

(* No two committed shapes share an id *)
IdsDistinct ==
    \A i, j \in 1..Len(pills) :
        IsShape(pills[i]) /\ IsShape(pills[j]) /\ i # j => pills[i].id # pills[j].id

(* A shape that stays one shape keeps its id; children take ids no shape   *)
(* of the split store had                                                  *)
C16_FreshOk(q, out, sx, sy) ==
    IF Len(out) = 1
    THEN out[1].id = q.id
    ELSE \A k \in 1..Len(out) : out[k].id \notin IdsOf(split[1].before)

(* A drag move leaves every shape's id as it was *)
DragKeepsIds ==
    ev' = "drag" =>
        /\ Len(pills') = Len(pills)
        /\ \A i \in 1..Len(pills) : pills'[i].id = pills[i].id

(* C16: with an id generator that never repeats, in every reachable state  *)
(* no two committed shapes share an id; every child created by a split has *)
(* an id different from its parent's and from every other shape's; a shape *)
(* that is only dragged or nudged keeps its id.                            *)
C16_IdsUniqueAndFresh ==
    /\ [](IdsDistinct /\ ForEachSplitShape(C16_FreshOk))
    /\ [][DragKeepsIds]_vars

(* A click has cut a shape into four children *)
C16_Children(q, out, sx, sy) == Len(out) = 4
C16_Witness == SomeSplitShape(C16_Children) /\ Cardinality(IdsOf(pills)) >= 4

----------------------------------------------------------------------------
(* The colors a drawn shape can be given *)
DrawColors == IF widget = "flat" THEN PILL_COLORS ELSE HslColors

(* Whatever replaces a shape (itself, itself moved, its children) has its color *)
C17_ColorOk(q, out, sx, sy) == \A k \in 1..Len(out) : out[k].color = q.color

(* A drag move leaves every shape's color as it was *)
DragKeepsColors ==
    ev' = "drag" =>
        /\ Len(pills') = Len(pills)
        /\ \A i \in 1..Len(pills) : pills'[i].color = pills[i].color

(* C17: every child produced by a split has exactly its parent's color;    *)
(* splits, drags and nudges change no color, so every descendant of a      *)
(* drawn shape carries the color that shape was given when it was drawn.   *)
C17_ColorInherited ==
    /\ [](ForEachSplitShape(C17_ColorOk))
    /\ [](\A i \in 1..Len(pills) : IsShape(pills[i]) => pills[i].color \in DrawColors)
    /\ [][DragKeepsColors]_vars

(* A click has cut a drawn shape into children *)
C17_Children(q, out, sx, sy) == Len(out) >= 2 /\ q.color \in DrawColors
C17_Witness == SomeSplitShape(C17_Children)

----------------------------------------------------------------------------
(* A side of the child c is a cut: a sibling lies beyond it *)
CutLeft(c, out) == \E k \in 1..Len(out) : out[k].x < c.x
CutRight(c, out) == \E k \in 1..Len(out) : out[k].x > c.x
CutTop(c, out) == \E k \in 1..Len(out) : out[k].y < c.y
CutBottom(c, out) == \E k \in 1..Len(out) : out[k].y > c.y

RoundedCorners(c) ==
    {corner \in {"topLeft", "topRight", "bottomLeft", "bottomRight"} :
        c.borderRadius[corner]}

(* A corner of c is rounded only if it is that corner of the parent q (no  *)
(* side of it is a cut) and q had it rounded                               *)
C18_CornersOk(q, out, sx, sy) ==
    /\ \A k \in 1..Len(out) :
          /\ out[k].borderRadius.topLeft =>
                q.borderRadius.topLeft /\ ~CutLeft(out[k], out) /\ ~CutTop(out[k], out)
          /\ out[k].borderRadius.topRight =>
                q.borderRadius.topRight /\ ~CutRight(out[k], out) /\ ~CutTop(out[k], out)
          /\ out[k].borderRadius.bottomLeft =>
                q.borderRadius.bottomLeft /\ ~CutLeft(out[k], out)
                    /\ ~CutBottom(out[k], out)
          /\ out[k].borderRadius.bottomRight =>
                q.borderRadius.bottomRight /\ ~CutRight(out[k], out)
                    /\ ~CutBottom(out[k], out)
    /\ Len(out) = 4 => \A k \in 1..4 : Cardinality(RoundedCorners(out[k])) <= 1

(* C18 (corner-rounding widget): after a split a child's corner is rounded *)
(* only if it coincides with the same corner of the parent and the parent  *)
(* had it rounded; both corners of a child on the cut are square.  So no   *)
(* rounding flag turns from false to true through splitting, and each      *)
(* child of a four-way split has at most one rounded corner.               *)
C18_CornerRounding == widget = "rounded" => ForEachSplitShape(C18_CornersOk)

(* A shape rounded on all four corners was cut in four: each child keeps   *)
(* exactly one rounded corner                                              *)
C18_FourOfRounded(q, out, sx, sy) ==
    /\ Len(out) = 4 /\ q.borderRadius = AllRounded
    /\ \A k \in 1..4 : Cardinality(RoundedCorners(out[k])) = 1
C18_Witness == widget = "rounded" /\ SomeSplitShape(C18_FourOfRounded)

----------------------------------------------------------------------------
(* The previews in the store (rounded), none in the flat widget's store *)
Previews(ps) == {i \in 1..Len(ps) : ~IsShape(ps[i])}

(* This step is a pointer-down that landed on a shape *)
DownOnShape == ev' = "down" /\ down'.target # NO_ID

(* It creates no draw state and no preview, and starts a move of the shape *)
StartsMoveNotDraw ==
    DownOnShape =>
        /\ UNCHANGED <<drawingRef, drawState>>
        /\ Cardinality(Previews(pills')) = Cardinality(Previews(pills))
        /\ DraggedId' = down'.target

(* The pointer-up of a gesture that began on a shape has added no shape *)
UpOnShapeAddsNothing ==
    ev \in {"up", "click"} /\ ~OnEmptySpace => "add" \notin ops

(* C19: a pointer-down that lands on an existing shape never starts a draw *)
(* (no draw state and no preview is created); it starts a move of that     *)
(* shape instead, and the subsequent pointer-up adds no new shape.         *)
C19_NoDrawOverShape ==
    /\ [][StartsMoveNotDraw]_vars
    /\ []UpOnShapeAddsNothing

----------------------------------------------------------------------------
(* C20: a pointer-down/up pair whose total movement is at or above the     *)
(* click threshold (4) or whose duration is at or above the click duration *)
(* (300 ms) never triggers a split, whether it began on a shape (drag) or  *)
(* on empty space (draw), in both widgets.  Stated in its weakest reading: *)
(* at the end of such a gesture no split has cut or moved a shape.         *)
C20_DragOrDrawNeverSplits ==
    GestureDone /\ ~SmallQuick => "cut" \notin ops

----------------------------------------------------------------------------
(* C21: every delivered pointer-up ends the gesture: right after it no draw *)
(* and no drag is in progress, wherever the pointer is; and while none is   *)
(* in progress a pointer move changes no shape of the store and starts no   *)
(* draw or drag, so the store stays as it is until the next pointer-down.   *)
GestureInProgress ==
    IF widget = "rounded"
    THEN Drawing \/ Dragging
    ELSE drawState # <<>> \/ dragState # <<>>

UpEndsGesture == ev = "up" => ~GestureInProgress

IdleMoveKeepsStore ==
    (~GestureInProgress /\ ev' \in {"move", "drag"})
        => (pills' = pills /\ ~GestureInProgress')

C21_ReturnsToIdle == []UpEndsGesture /\ [][IdleMoveKeepsStore]_vars

----------------------------------------------------------------------------
(* C22: in every reachable state the widget is not at once in a drawing    *)
(* state and in a dragging state, whatever the sequence of pointer-down,   *)
(* pointer-move and pointer-up events.                                     *)
C22_DrawDragExclusive ==
    /\ ~(Drawing /\ Dragging)
    /\ ~(drawState # <<>> /\ dragState # <<>>)

----------------------------------------------------------------------------
(* C23: after a split, every shape that was nudged (translated because a   *)
(* crossed axis was not splittable, along one axis or along both) still    *)
(* lies within the container: 0 <= x <= containerWidth - width and         *)
(* 0 <= y <= containerHeight - height.  Stated for the shapes that lay     *)
(* within the container before the split.                                  *)
WasNudged(q, out) ==
    /\ Len(out) = 1
    /\ SameShapeMoved(q, out[1])
    /\ out[1] # q

C23_NudgedOk(q, out, sx, sy) ==
    InsideContainer(q) /\ WasNudged(q, out) => InsideContainer(out[1])

C23_NudgeInsideContainer == ForEachSplitShape(C23_NudgedOk)

----------------------------------------------------------------------------
(* C24: a pointer-down on a shape makes that shape the last element of the *)
(* store (the paint order); the store holds the same shapes, each with its *)
(* id, position, size and color, and the other shapes keep their relative  *)
(* order.                                                                  *)
BroughtToFront ==
    (ev' = "down" /\ down'.target # NO_ID) =>
        /\ Len(pills') = Len(pills)
        /\ pills'[Len(pills')].id = down'.target
        /\ \E i \in 1..Len(pills) : pills[i] = pills'[Len(pills')]
        /\ FilterOut(pills', down'.target) = FilterOut(pills, down'.target)

C24_BringToFront == [][BroughtToFront]_vars

----------------------------------------------------------------------------
(* C25: a split at a point followed at once by a split at the same point   *)
(* leaves the store as it was after the first split, up to ids: the second *)
(* split cuts nothing and nudges nothing.                                  *)
ForgetIds(ps) == [i \in 1..Len(ps) |-> [ps[i] EXCEPT !.id = NO_ID]]

SameSplitAgain ==
    /\ JustSplit
    /\ JustSplit'
    /\ split'[1].before = pills
    /\ split'[1].x = split[1].x
    /\ split'[1].y = split[1].y

SecondSplitChangesNothing == SameSplitAgain => ForgetIds(pills') = ForgetIds(pills)

C25_SplitIdempotent == [][SecondSplitChangesNothing]_vars

----------------------------------------------------------------------------
(* C26: one drag move changes only the x and the y of the dragged shape:   *)
(* its id, width, height and color, every field of every other shape, and  *)
(* the number and the order of the shapes are unchanged.                   *)
DragMoveFrame ==
    ev' = "drag" =>
        /\ Len(pills') = Len(pills)
        /\ \A j \in 1..Len(pills) :
              IF pills[j].id = DraggedId
              THEN SameShapeMoved(pills[j], pills'[j])
              ELSE pills'[j] = pills[j]

C26_DragMoveFrame == [][DragMoveFrame]_vars

(* a shape of a store of several has been dragged away from where it was   *)
(* pressed                                                                 *)
C26_Witness ==
    /\ ev = "drag"
    /\ Len(pills) >= 2
    /\ DraggedId # NO_ID
    /\ (mouse.x # down.x \/ mouse.y # down.y)

----------------------------------------------------------------------------
(* C27 (corner-rounding widget): in every reachable state the store holds  *)
(* at most one preview shape (the reserved id "drawing"); it is there only *)
(* while a draw is in progress; and a split returns it as it was (it is    *)
(* not split, not nudged and not removed).                                 *)
AtMostOnePreview == Cardinality(Previews(pills)) <= 1

PreviewOnlyWhileDrawing == Previews(pills) # {} => Drawing

SplitKeepsPreview ==
    JustSplit =>
        \A i \in 1..Len(split[1].before) :
            ~IsShape(split[1].before[i]) => split[1].each[i] = << split[1].before[i] >>

C27_SinglePreview ==
    widget = "rounded" =>
        AtMostOnePreview /\ PreviewOnlyWhileDrawing /\ SplitKeepsPreview

----------------------------------------------------------------------------
(* C28 (reorder board): after any sequence of drag starts, pointer moves   *)
(* and pointer-ups the two columns together hold exactly the eight initial *)
(* cards, each id once; and a drop only takes the dragged card out of its  *)
(* source column, at the index recorded at the drag start, and puts that   *)
(* same card into the target column at the placeholder's index.            *)
CardsOf(cs) == cs[1] \o cs[2]

EightCardsOnce ==
    /\ Len(CardsOf(cols)) = 8
    /\ \A id \in 1..8 :
          Cardinality({k \in 1..8 : CardsOf(cols)[k].id = id}) = 1

(* What a drop does to the columns, stated on the two columns at once *)
IsDropOf(before, after, card, fromCol, fromIndex, toCol, toIndex) ==
    /\ before[fromCol + 1][fromIndex + 1] = card
    /\ Len(after[fromCol + 1]) = Len(before[fromCol + 1]) - 1
    /\ Len(after[toCol + 1]) = Len(before[toCol + 1]) + 1
    /\ \A k \in 1..Len(after[fromCol + 1]) :
          after[fromCol + 1][k] =
              before[fromCol + 1][IF k <= fromIndex THEN k ELSE k + 1]
    /\ after[toCol + 1][toIndex + 1] = card
    /\ \A k \in 1..Len(before[toCol + 1]) :
          before[toCol + 1][k] =
              after[toCol + 1][IF k <= toIndex THEN k ELSE k + 1]

OnlyDropsChangeColumns ==
    cols' # cols =>
        /\ ev' = "up"
        /\ dragging # <<>>
        /\ placeholder # <<>>
        /\ IsDropOf(cols, cols', dragging[1].card, dragging[1].fromCol,
                    dragging[1].fromIndex, placeholder[1].col, placeholder[1].index)

C28_CardConservation == []EightCardsOnce /\ [][OnlyDropsChangeColumns]_vars

(* a card of the first column has been dropped into the second *)
C28_Witness ==
    /\ widget = "board"
    /\ ev = "up"
    /\ Len(cols[1]) = 3
    /\ Len(cols[2]) = 5

----------------------------------------------------------------------------
(* C29 (reorder board): the placeholder, and so every drop, is in the      *)
(* column opposite to the one the dragged card was picked from - a card is *)
(* never put back into its own column; and a pointer-up while no           *)
(* placeholder is set leaves both columns as they are and ends the drag.   *)
IdsIn(col) == {col[k].id : k \in 1..Len(col)}

PlaceholderOpposite ==
    placeholder # <<>> =>
        /\ dragging # <<>>
        /\ placeholder[1].col = 1 - dragging[1].fromCol

DropsGoAcross ==
    cols' # cols =>
        /\ dragging # <<>>
        /\ dragging[1].card.id \notin IdsIn(cols'[dragging[1].fromCol + 1])
        /\ dragging[1].card.id \in IdsIn(cols'[(1 - dragging[1].fromCol) + 1])
        /\ cols'[dragging[1].fromCol + 1] =
              SelectSeq(cols[dragging[1].fromCol + 1],
                        LAMBDA c : c.id # dragging[1].card.id)

UpWithoutPlaceholder ==
    (ev' = "up" /\ placeholder = <<>>) =>
        /\ cols' = cols
        /\ dragging' = <<>>
        /\ placeholder' = <<>>

C29_DropTarget ==
    []PlaceholderOpposite /\ [][DropsGoAcross /\ UpWithoutPlaceholder]_vars

(* a card was picked, the pointer moved, and the pointer-up dropped nothing *)
C29_Witness ==
    /\ widget = "board"
    /\ ev = "up"
    /\ gestures = 1
    /\ pointer.y \in PointerYs
    /\ Len(cols[1]) = 4

----------------------------------------------------------------------------
(* C30 (window manager): while a window is dragged, after every pointer    *)
(* move its position is x = max(0, min(viewportWidth - width, initX + dx)) *)
(* and y = max(0, min(viewportHeight - height, initY + dy)), dx and dy the *)
(* pointer's distance from where the drag began; so x >= 0 and y >= 0, and *)
(* the window lies wholly inside the viewport when the viewport is at      *)
(* least as large as the window.  After the mouse-up, pointer moves no     *)
(* longer change the position.                                             *)
LastDrag == listeners[Len(listeners)]

DragClamped ==
    ev' = "drag" =>
        /\ pos'.x = Max(0, Min(viewport.width - WINDOW_WIDTH,
                               LastDrag.initX + (mouse'.x - LastDrag.startX)))
        /\ pos'.y = Max(0, Min(viewport.height - WINDOW_HEIGHT,
                               LastDrag.initY + (mouse'.y - LastDrag.startY)))
        /\ pos'.x >= 0
        /\ pos'.y >= 0
        /\ (viewport.width >= WINDOW_WIDTH /\ viewport.height >= WINDOW_HEIGHT) =>
              /\ pos'.x + WINDOW_WIDTH <= viewport.width
              /\ pos'.y + WINDOW_HEIGHT <= viewport.height

UpEndsWindowDrag == ev = "up" => listeners = <<>> /\ ~isDragging

ReleasedWindowStays == (listeners = <<>> /\ ev' = "move") => pos' = pos

C30_WindowDragClamp ==
    []UpEndsWindowDrag /\ [][DragClamped /\ ReleasedWindowStays]_vars

(* a drag that the clamp stopped at the right and the bottom edge of the   *)
(* viewport                                                                *)
C30_Witness ==
    /\ widget = "window"
    /\ ev = "drag"
    /\ pos.x = viewport.width - WINDOW_WIDTH
    /\ pos.y = viewport.height - WINDOW_HEIGHT
    /\ pos.x > 0
    /\ LastDrag.initX + (mouse.x - LastDrag.startX) > pos.x
    /\ LastDrag.initY + (mouse.y - LastDrag.startY) > pos.y

====
